---- MODULE Spec2Model ----
(* A model of generate_checklist.py: the resolution of the run configuration   *)
(* (config.json merged with the command line), the identifier validation, the  *)
(* placeholder substitution, the run of __main__ over the file system with the *)
(* external renderer, and the cleanup.                                         *)
(*                                                                             *)
(* Strings are sequences of symbols: a symbol is a character or a chunk of     *)
(* characters that no operation of the program splits (a placeholder token, a  *)
(* date, a file extension).  A path is the sequence of its components, "/" as  *)
(* first component marking an absolute path.                                   *)
EXTENDS Integers, Sequences, FiniteSets, TLC

VARIABLES
    pc,          \* position of __main__ (or of the function under check)
    argv,        \* the options given on the command line: key -> word
    args,        \* argparse namespace: key -> value
    cfgfile,     \* config.json in the working directory: NoFile or key -> value
    config,      \* the run configuration being resolved
    today,       \* datetime.now().strftime('%Y%m%d')
    script_dir,  \* pathlib.Path(__file__).resolve().parent
    files0,      \* the regular files present when the process started
    files,       \* regular files: path -> content
    dirs,        \* directories: set of paths
    renders,     \* kinds for which the render command was run, in order
    status,      \* exit status of the process, -1 while it runs
    reason,      \* which statement ended the process
    warned,      \* logging.warning of set_run_parameters was emitted
    project_id,  \* argument of validate_project_id
    verdict,     \* outcome of validate_project_id
    line,        \* argument of parse_line
    output       \* result of parse_line

vars == <<pc, argv, args, cfgfile, config, today, script_dir, files0, files,
          dirs, renders, status, reason, warned, project_id, verdict, line,
          output>>

runVars == <<pc, argv, args, cfgfile, config, today, script_dir, files0, files,
             dirs, renders, status, reason, warned>>

idVars == <<project_id, verdict>>

lineVars == <<line, output>>

-----------------------------------------------------------------------------
(* Bounds of the model *)

\* longest string handed to validate_project_id
MaxIdLen == 7

\* longest template line handed to parse_line, in symbols
MaxLineLen == 2

\* most files already present when the run starts
MaxFiles == 2

SeqsUpTo(S, n) == UNION {[1..k -> S] : k \in 0..n}

-----------------------------------------------------------------------------
(* Python values: None, str, pathlib.Path, bool, int *)

None == [t |-> "none", v |-> <<>>]

Str(s) == [t |-> "str", v |-> s]

PathV(p) == [t |-> "path", v |-> p]

Bool(b) == [t |-> "bool", v |-> IF b THEN <<"True">> ELSE <<"False">>]

\* an int, n its decimal digits
Num(n) == [t |-> "int", v |-> <<n>>]

\* bool(x): None, "", False and 0 are false, a Path is always true
Truthy(x) ==
    CASE x.t = "none" -> FALSE
      [] x.t = "str"  -> x.v # <<>>
      [] x.t = "path" -> TRUE
      [] x.t = "bool" -> x.v = <<"True">>
      [] OTHER        -> x.v # <<"0">>

Root == <<"/">>

\* "/".join of the names of a path
RECURSIVE JoinSlash(_)
JoinSlash(p) ==
    IF Len(p) = 0 THEN <<>>
    ELSE IF Len(p) = 1 THEN Head(p)
    ELSE IF Head(p) = Root THEN Root \o JoinSlash(Tail(p))
    ELSE Head(p) \o <<"/">> \o JoinSlash(Tail(p))

\* str(x), as an f-string formats x
Format(x) ==
    CASE x.t = "none" -> <<"None">>
      [] x.t = "path" -> IF x.v = <<>> THEN <<".">> ELSE JoinSlash(x.v)
      [] OTHER        -> x.v

\* pathlib.Path(s) of a str whose symbols are names, "/" and ".": the names
\* in order, "." and the separators dropped, a leading "/" kept as the root
PathOfStr(s) ==
    LET names == SelectSeq(s, LAMBDA c : c \notin {"/", "."})
        comps == [i \in DOMAIN names |-> <<names[i]>>]
    IN  IF Len(s) > 0 /\ s[1] = "/" THEN <<Root>> \o comps ELSE comps

StartsWith(s, p) == Len(p) <= Len(s) /\ SubSeq(s, 1, Len(p)) = p

-----------------------------------------------------------------------------
(* validate_project_id *)

Digits == {"0", "1", "2", "3", "4", "5", "6", "7", "8", "9"}

IdAlphabet == {"P", "X", "1", "\n"}

\* re.match(r"^P[0-9]{n}$", s): "$" also matches before one trailing newline
MatchPDigits(s, n) ==
    /\ Len(s) \in {n + 1, n + 2}
    /\ s[1] = "P"
    /\ \A i \in 2..(n + 1) : s[i] \in Digits
    /\ Len(s) = n + 2 => s[n + 2] = "\n"

\* True when validate_project_id returns, False when it raises ValueError
validate_project_id(s) == MatchPDigits(s, 5)

InitIdle ==
    /\ pc = "idle"
    /\ argv = <<>>
    /\ args = <<>>
    /\ cfgfile = <<>>
    /\ today = <<>>
    /\ script_dir = <<>>
    /\ files0 = <<>>
    /\ files = <<>>
    /\ dirs = {}
    /\ renders = <<>>
    /\ status = -1
    /\ reason = "none"
    /\ warned = FALSE

InitId ==
    /\ InitIdle
    /\ config = <<>>
    /\ project_id \in SeqsUpTo(IdAlphabet, MaxIdLen)
    /\ verdict = "pending"
    /\ line = <<>>
    /\ output = <<>>

ValidateProjectId ==
    /\ verdict = "pending"
    /\ verdict' = IF validate_project_id(project_id) THEN "ok" ELSE "ValueError"
    /\ UNCHANGED <<runVars, lineVars, project_id>>

NextId == ValidateProjectId

SpecId == InitId /\ [][NextId]_vars

\* 'P' followed by exactly 4 or exactly 5 decimal digits and nothing else
IsProjectId(s) ==
    /\ Len(s) \in {5, 6}
    /\ s[1] = "P"
    /\ \A i \in 2..Len(s) : s[i] \in Digits

\* C8: validate_project_id succeeds for exactly the strings that are 'P'
\* followed by 4 or 5 decimal digits, and raises for every other string.
C8_ValidatesPFourOrFiveDigits ==
    verdict # "pending" => (verdict = "ok" <=> IsProjectId(project_id))

-----------------------------------------------------------------------------
(* parse_markdown_templates.parse_line *)

P12345 == <<"P", "1", "2", "3", "4", "5">>

P1234 == <<"P", "1", "2", "3", "4">>

\* the six placeholder tokens with the field each stands for, in the order
\* parse_line substitutes them
Placeholders ==
    << [token |-> "<project_id>",  field |-> "project"],
       [token |-> "<flowcell_id>", field |-> "flowcell"],
       [token |-> "<author_name>", field |-> "author"],
       [token |-> "<ngi_path>",    field |-> "ngi_path"],
       [token |-> "<genstat_url>", field |-> "genstat_url"],
       [token |-> "<charon_url>",  field |-> "charon_url"] >>

Tokens == {Placeholders[i].token : i \in DOMAIN Placeholders}

LineFields == {Placeholders[i].field : i \in DOMAIN Placeholders}

\* the replacement argument of re.sub is a template: the two characters
\* backslash, n stand for a newline
ReTemplate(repl) ==
    [i \in DOMAIN repl |-> IF repl[i] = "\\n" THEN "\n" ELSE repl[i]]

\* re.sub(token, repl, s) for a pattern that is one literal token
RECURSIVE ReSub(_, _, _)
ReSub(token, repl, s) ==
    IF s = <<>> THEN <<>>
    ELSE (IF Head(s) = token THEN ReTemplate(repl) ELSE <<Head(s)>>)
         \o ReSub(token, repl, Tail(s))

\* the first n statements of parse_line applied to s
RECURSIVE ParseSteps(_, _, _)
ParseSteps(cfg, s, n) ==
    IF n = 0 THEN s
    ELSE LET prev == ParseSteps(cfg, s, n - 1)
             ph   == Placeholders[n]
         IN  IF Truthy(cfg[ph.field])
             THEN ReSub(ph.token, Format(cfg[ph.field]), prev)
             ELSE prev

parse_line(cfg, s) == ParseSteps(cfg, s, Len(Placeholders))

LineAlphabet == Tokens \cup {"x"}

\* values a field can hold when parse_line runs: project and flowcell have
\* passed validation or are empty, ngi_path is None or a Path
FieldValues ==
    [ project     |-> {None, Str(<<>>), Str(P12345)},
      flowcell    |-> {None, Str(<<"FC">>)},
      author      |-> {None, Str(<<>>), Str(<<"Ann">>), Str(<<"<ngi_path>">>)},
      ngi_path    |-> {None, PathV(<<>>), PathV(<<Root, <<"ngi">>>>)},
      genstat_url |-> {None, Str(<<"g">>), Str(<<"g", "\\n">>)},
      charon_url  |-> {None, Str(<<"c">>)} ]

InitLine ==
    /\ InitIdle
    /\ config \in {c \in [LineFields -> UNION {FieldValues[f] : f \in LineFields}] :
                      \A f \in LineFields : c[f] \in FieldValues[f]}
    /\ line \in SeqsUpTo(LineAlphabet, MaxLineLen)
    /\ output = <<>>
    /\ project_id = <<>>
    /\ verdict = "pending"

ParseLine ==
    /\ pc = "idle"
    /\ pc' = "parsed"
    /\ output' = parse_line(config, line)
    /\ UNCHANGED <<argv, args, cfgfile, config, today, script_dir, files0,
                   files, dirs, renders, status, reason, warned, idVars, line>>

NextLine == ParseLine

SpecLine == InitLine /\ [][NextLine]_vars

FieldOf(token) ==
    (CHOOSE i \in DOMAIN Placeholders : Placeholders[i].token = token)

\* what the claim says one symbol of the line becomes
RECURSIVE Substituted(_, _)
Substituted(cfg, s) ==
    IF s = <<>> THEN <<>>
    ELSE LET h == Head(s)
             f == Placeholders[FieldOf(h)].field
         IN  (IF h \in Tokens /\ cfg[f] # None THEN Format(cfg[f]) ELSE <<h>>)
             \o Substituted(cfg, Tail(s))

\* C9: every occurrence of a placeholder token is left unchanged when its
\* field is null and replaced by the field's value when the field is set;
\* the rest of the line is unchanged.
C9_PlaceholderSubstitution ==
    pc = "parsed" => output = Substituted(config, line)

-----------------------------------------------------------------------------
(* parse_args and set_run_parameters *)

\* the options of the argument parser, in the order they are added
Schema ==
    << "templates_path", "format", "project", "flowcell", "author", "email",
       "ngi_path", "genstat_url", "charon_url", "quarto_path", "output_path",
       "timestamp", "output_structure", "force", "log_level" >>

SchemaKeys == {Schema[i] : i \in DOMAIN Schema}

\* options declared with type=pathlib.Path
PathTyped == {"templates_path", "ngi_path", "quarto_path", "output_path"}

\* options declared with action="store_true"
Flags == {"timestamp", "force"}

\* keys of config.json the model draws that are not options
AlienKeys == {"institute", "data_dir"}

\* "path" in key or "dir" in key
IsPathKey(k) == k \in PathTyped \cup {"data_dir"}

\* the default= of each add_argument
Default(k) ==
    CASE k = "templates_path" -> PathV(<<<<"templates">>>>)
      [] k = "timestamp"      -> Bool(FALSE)
      [] k = "force"          -> Bool(FALSE)
      [] k = "log_level"      -> Str(<<"INFO">>)
      [] OTHER                -> None

\* the value argparse stores for an option given on the command line
Parsed(k, word) ==
    IF k \in Flags THEN Bool(TRUE)
    ELSE IF k \in PathTyped THEN PathV(PathOfStr(word))
    ELSE Str(word)

\* parse_args: given maps the options on the command line to their words
parse_args(given) ==
    [k \in SchemaKeys |->
        IF k \in DOMAIN given THEN Parsed(k, given[k]) ELSE Default(k)]

\* pathlib.Path(value) raises TypeError unless value is a str
LoadRaises(json) == \E k \in DOMAIN json : IsPathKey(k) /\ json[k].t # "str"

\* config after "Load the config file if it exists"
Loaded(cf) ==
    IF cf.present
    THEN [k \in DOMAIN cf.json |->
             IF IsPathKey(k) THEN PathV(PathOfStr(cf.json[k].v)) ELSE cf.json[k]]
    ELSE [k \in {} |-> None]

\* keys of the config file that are not among vars(args)
NotFound(cf, a) == IF cf.present THEN DOMAIN cf.json \ DOMAIN a ELSE {}

\* config after "Re-set the config parameters based on command-line arguments"
Merged(cfg, a) ==
    [k \in DOMAIN cfg \cup DOMAIN a |->
        IF k \in DOMAIN a /\ (k \notin DOMAIN cfg \/ a[k] # None)
        THEN a[k] ELSE cfg[k]]

\* the slip of forgetting to trim the separator
StripUnderscore_Kept(prefix) == prefix

\* prefix[:-1] if prefix.endswith("_") else prefix
StripUnderscore(prefix) ==
    IF Len(prefix) > 0 /\ prefix[Len(prefix)] = "_"
    THEN SubSeq(prefix, 1, Len(prefix) - 1) ELSE prefix

\* config["basename"] as lines 142-144 compute it
Basename(cfg, a, date) ==
    LET p1 == IF Truthy(a["timestamp"]) THEN date \o <<"_">> ELSE <<>>
        p2 == p1 \o (IF Truthy(cfg["project"])
                     THEN Format(cfg["project"]) \o <<"_">> ELSE <<>>)
    IN  StripUnderscore(p2)

\* the nested output directory is asked for
IsNested(cfg, base) ==
    base # <<>> /\ cfg["output_structure"] = Str(<<"nested">>)

\* the working directory of the process
Cwd == <<Root, <<"work">>>>

\* the absolute path a path of the program denotes
Abs(p) == IF Len(p) > 0 /\ p[1] = Root THEN p ELSE Cwd \o p

\* the directories mkdir(parents=True, exist_ok=True) leaves behind
WithDir(ds, p) == ds \cup {SubSeq(Abs(p), 1, n) : n \in 1..Len(Abs(p))}

\* the config set_run_parameters returns
set_run_parameters(cf, a, date) ==
    LET cfg  == Merged(Loaded(cf), a)
        base == Basename(cfg, a, date)
        out  == IF IsNested(cfg, base)
                THEN PathV(cfg["output_path"].v \o <<base>>)
                ELSE cfg["output_path"]
    IN  [k \in DOMAIN cfg \cup {"basename"} |->
            IF k = "basename" THEN Str(base)
            ELSE IF k = "output_path" THEN out
            ELSE cfg[k]]

-----------------------------------------------------------------------------
(* validate_flowcell_id *)

Upper == {"A", "B", "C", "D", "E", "F", "G", "H", "I", "J", "K", "L", "M", "N",
          "O", "P", "Q", "R", "S", "T", "U", "V", "W", "X", "Y", "Z"}

AllIn(s, from, to, S) == \A i \in from..to : s[i] \in S

\* re.match of the flowcell pattern: a digits, "_", b letters and 5 digits,
\* "_", c digits, "_", d letters or digits, and e = 0 or "-" with 5 more
validate_flowcell_id(s) ==
    \E a \in 6..8, b \in 1..2, c \in 3..4, d \in 9..10, e \in {0, 6}, nl \in {0, 1} :
        LET p1 == a + 1
            p2 == p1 + b + 5 + 1
            p3 == p2 + c + 1
            p4 == p3 + d
        IN  /\ Len(s) = p4 + e + nl
            /\ AllIn(s, 1, a, Digits)
            /\ s[p1] = "_"
            /\ AllIn(s, p1 + 1, p1 + b, Upper)
            /\ AllIn(s, p1 + b + 1, p1 + b + 5, Digits)
            /\ s[p2] = "_"
            /\ AllIn(s, p2 + 1, p2 + c, Digits)
            /\ s[p3] = "_"
            /\ AllIn(s, p3 + 1, p4, Upper \cup Digits)
            /\ e = 6 => s[p4 + 1] = "-" /\ AllIn(s, p4 + 2, p4 + 6, Upper \cup Digits)
            /\ nl = 1 => s[Len(s)] = "\n"

-----------------------------------------------------------------------------
(* the file system *)

Parent(p) == SubSeq(p, 1, Len(p) - 1)

NameOf(p) == p[Len(p)]

\* p lies below directory d, at any depth
Under(p, d) == Len(p) > Len(d) /\ SubSeq(p, 1, Len(d)) = d

\* the directories on the way to the paths of set ps
Ancestors(ps) == UNION {{SubSeq(p, 1, n) : n \in 1..(Len(p) - 1)} : p \in ps}

Written(fs, p, content) ==
    [q \in DOMAIN fs \cup {p} |-> IF q = p THEN content ELSE fs[q]]

Removed(fs, ps) == [q \in DOMAIN fs \ ps |-> fs[q]]

\* name matches the glob pattern f"{base}*{ext}"
GlobMatch(name, base, ext) ==
    /\ StartsWith(name, base)
    /\ Len(name) > Len(base)
    /\ name[Len(name)] = ext

Kinds == <<"QC", "Delivery", "Close">>

\* f"{config['basename']}_{label}{ext}"
DocName(base, label, ext) == base \o <<"_", label, ext>>

-----------------------------------------------------------------------------
(* __main__ *)

NoConfig == [present |-> FALSE, json |-> [k \in {} |-> None]]

ConfigFile(json) == [present |-> TRUE, json |-> json]

Empty == [k \in {} |-> None]

\* exit(1), and the exit of the interpreter on an uncaught exception
Exit(why) ==
    /\ pc' = "exit"
    /\ status' = 1
    /\ reason' = why

\* args = parse_args()
ParseArgs ==
    /\ pc = "start"
    /\ args' = parse_args(argv)
    /\ pc' = "args"
    /\ UNCHANGED <<argv, cfgfile, config, today, script_dir, files0, files, dirs,
                   renders, status, reason, warned, idVars, lineVars>>

\* config = set_run_parameters(args)
SetRunParameters ==
    /\ pc = "args"
    /\ warned' = (NotFound(cfgfile, args) # {})
    /\ IF cfgfile.present /\ LoadRaises(cfgfile.json)
       THEN /\ Exit("TypeError")
            /\ UNCHANGED <<config, dirs>>
       ELSE LET cfg == set_run_parameters(cfgfile, args, today)
                pre == Merged(Loaded(cfgfile), args)
            IN  IF IsNested(pre, cfg["basename"].v) /\ pre["output_path"] = None
                THEN /\ Exit("AttributeError")
                     /\ UNCHANGED <<config, dirs>>
                ELSE /\ config' = cfg
                     /\ dirs' = IF IsNested(pre, cfg["basename"].v)
                                THEN WithDir(dirs, cfg["output_path"].v)
                                ELSE dirs
                     /\ pc' = "configured"
                     /\ UNCHANGED <<status, reason>>
    /\ UNCHANGED <<argv, args, cfgfile, today, script_dir, files0, files,
                   renders, idVars, lineVars>>

\* lines 395-401: the identifiers are validated when they are set
ValidateIds ==
    /\ pc = "configured"
    /\ IF Truthy(config["project"]) /\ ~validate_project_id(config["project"].v)
       THEN Exit("ValueError")
       ELSE IF Truthy(config["flowcell"])
               /\ ~validate_flowcell_id(config["flowcell"].v)
       THEN Exit("ValueError")
       ELSE pc' = "ids" /\ UNCHANGED <<status, reason>>
    /\ UNCHANGED <<argv, args, cfgfile, config, today, script_dir, files0, files,
                   dirs, renders, warned, idVars, lineVars>>

WhichQuarto == PathV(<<Root, <<"usr">>, <<"bin">>, <<"quarto">>>>)

\* config["quarto_path"], quarto_version = validate_quarto_path(...): the
\* hinted executable answers, or "which quarto" finds one, or neither
validate_quarto_path ==
    /\ pc = "ids"
    /\ \E found \in {"hint", "which", "nowhere"} :
          CASE found = "hint" ->
                  /\ config["quarto_path"] # None
                  /\ pc' = "quarto"
                  /\ UNCHANGED <<config, status, reason>>
            [] found = "which" ->
                  /\ config' = [config EXCEPT !["quarto_path"] = WhichQuarto]
                  /\ pc' = "quarto"
                  /\ UNCHANGED <<status, reason>>
            [] OTHER ->
                  /\ Exit("quarto")
                  /\ UNCHANGED config
    /\ UNCHANGED <<argv, args, cfgfile, today, script_dir, files0, files, dirs,
                   renders, warned, idVars, lineVars>>

\* validate_templates(config["templates_path"]): the directory and its three
\* templates are there, or not
validate_templates ==
    /\ pc = "quarto"
    /\ \E present \in BOOLEAN :
          IF present
          THEN pc' = "templates" /\ UNCHANGED <<status, reason>>
          ELSE Exit("templates")
    /\ UNCHANGED <<argv, args, cfgfile, config, today, script_dir, files0, files,
                   dirs, renders, warned, idVars, lineVars>>

QmdsPath == script_dir \o <<<<"qmds">>>>

\* lines 409-414: the output directory and the qmds directory are created
MakeDirs ==
    /\ pc = "templates"
    /\ IF config["output_path"] = None
       THEN /\ Exit("AttributeError")
            /\ UNCHANGED <<config, dirs>>
       ELSE /\ dirs' = WithDir(WithDir(dirs, config["output_path"].v), QmdsPath)
            /\ config' = [k \in DOMAIN config \cup {"qmds_path"} |->
                             IF k = "qmds_path" THEN PathV(QmdsPath) ELSE config[k]]
            /\ pc' = "dirs"
            /\ UNCHANGED <<status, reason>>
    /\ UNCHANGED <<argv, args, cfgfile, today, script_dir, files0, files,
                   renders, warned, idVars, lineVars>>

\* the slip of looking only for the three Markdown artifacts of the run
Existing_OnlyArtifacts(fs, cfg) ==
    {p \in DOMAIN fs :
        /\ Parent(p) = Abs(cfg["output_path"].v)
        /\ \E i \in DOMAIN Kinds :
              NameOf(p) = DocName(cfg["basename"].v, Kinds[i], ".md")}

\* config["output_path"].glob(f"{config['basename']}*") that are files
Existing(fs, cfg) ==
    {p \in DOMAIN fs : /\ Parent(p) = Abs(cfg["output_path"].v)
                       /\ StartsWith(NameOf(p), cfg["basename"].v)}

\* lines 416-432: refuse to overwrite unless --force was given
OverwriteCheck ==
    /\ pc = "dirs"
    /\ IF ~Truthy(args["force"]) /\ Existing(files, config) # {}
       THEN Exit("overwrite")
       ELSE pc' = "checked" /\ UNCHANGED <<status, reason>>
    /\ UNCHANGED <<argv, args, cfgfile, config, today, script_dir, files0, files,
                   dirs, renders, warned, idVars, lineVars>>

\* templates_dict = parse_markdown_templates(config): the three intermediate
\* documents are written, each named relative to the working directory
parse_markdown_templates ==
    /\ pc = "checked"
    /\ LET base == config["basename"].v
           qmd(i) == Abs(<<DocName(base, Kinds[i], ".qmd")>>)
       IN  files' = Written(Written(Written(files, qmd(1), "qmd"),
                                    qmd(2), "qmd"), qmd(3), "qmd")
    /\ pc' = "render"
    /\ UNCHANGED <<argv, args, cfgfile, config, today, script_dir, files0, dirs,
                   renders, status, reason, warned, idVars, lineVars>>

\* the extension of the final artifacts
OutExt(cfg) == IF cfg["format"] = Str(<<"markdown">>) THEN ".md" ELSE ".html"

\* the final artifact of a kind: --output-dir output_path --output name
Artifact(cfg, kind) ==
    Abs(cfg["output_path"].v) \o <<DocName(cfg["basename"].v, kind, OutExt(cfg))>>

\* the slip of logging a failed render and going on with the next kind
RenderNext_GoesOn ==
    /\ pc = "render"
    /\ LET kind == Kinds[Len(renders) + 1]
           last == Len(renders) + 1 = Len(Kinds)
       IN  /\ renders' = Append(renders, kind)
           /\ pc' = IF last THEN "cleanup" ELSE "render"
           /\ \E rc \in {0, 1} :
                 IF rc = 0
                 THEN /\ files' = Written(files, Artifact(config, kind), "markdown")
                      /\ UNCHANGED <<status, reason>>
                 ELSE /\ reason' = "render"
                      /\ UNCHANGED <<files, status>>
    /\ UNCHANGED <<argv, args, cfgfile, config, today, script_dir, files0, dirs,
                   warned, idVars, lineVars>>

\* one turn of the loop of lines 460-476: the renderer is run for the next
\* kind and exits with 0 or not; generate_markdown_output rewrites what the
\* renderer wrote, generate_html_output leaves it
RenderNext ==
    /\ pc = "render"
    /\ LET kind == Kinds[Len(renders) + 1]
           last == Len(renders) + 1 = Len(Kinds)
       IN  IF config["format"] \in {Str(<<"markdown">>), Str(<<"html">>)}
           THEN /\ renders' = Append(renders, kind)
                /\ \E rc \in {0, 1} :
                      IF rc = 0
                      THEN /\ files' = Written(files, Artifact(config, kind),
                                 IF OutExt(config) = ".md" THEN "markdown" ELSE "html")
                           /\ pc' = IF last THEN "cleanup" ELSE "render"
                           /\ UNCHANGED <<status, reason>>
                      ELSE /\ Exit("render")
                           /\ UNCHANGED files
           ELSE /\ Exit("format")
                /\ UNCHANGED <<files, renders>>
    /\ UNCHANGED <<argv, args, cfgfile, config, today, script_dir, files0, dirs,
                   warned, idVars, lineVars>>

\* glob(f"{basename}*.qmd") in the directory of the program
QmdsToMove(fs, dir, base) ==
    {p \in DOMAIN fs : Parent(p) = dir /\ GlobMatch(NameOf(p), base, ".qmd")}

\* the files after "Move qmd files to the quarto directory"
AfterMove(fs, dir, base, qmds) ==
    LET moved  == QmdsToMove(fs, dir, base)
        target == {qmds \o <<NameOf(p)>> : p \in moved}
    IN  [q \in (DOMAIN fs \ moved) \cup target |->
            IF q \in target
            THEN fs[CHOOSE p \in moved : qmds \o <<NameOf(p)>> = q]
            ELSE fs[q]]

\* pathlib.Path().glob(f"**/{basename}*.md")
MdsToRemove(fs, base) ==
    {p \in DOMAIN fs : Under(p, Cwd) /\ GlobMatch(NameOf(p), base, ".md")}

\* pathlib.Path().glob(f"**/{basename}_files")
DirsToRemove(ds, base) ==
    {d \in ds : Under(d, Cwd) /\ NameOf(d) = base \o <<"_files">>}

\* cleanup_temporary_data(config)
cleanup_temporary_data ==
    /\ pc = "cleanup"
    /\ LET base == config["basename"].v
           fs1  == AfterMove(files, script_dir, base, config["qmds_path"].v)
           fs2  == Removed(fs1, MdsToRemove(fs1, base))
           tmp  == DirsToRemove(dirs, base)
       IN  /\ files' = Removed(fs2, {p \in DOMAIN fs2 : \E d \in tmp : Under(p, d)})
           /\ dirs' = dirs \ {x \in dirs : \E d \in tmp : x = d \/ Under(x, d)}
    /\ pc' = "done"
    /\ status' = 0
    /\ UNCHANGED <<argv, args, cfgfile, config, today, script_dir, files0,
                   renders, reason, warned, idVars, lineVars>>

-----------------------------------------------------------------------------
(* the runs the model explores *)

Absent == <<"--absent">>

\* a record of words, the options that are Absent left out
Given(r) == [k \in {x \in DOMAIN r : r[x] # Absent} |-> r[k]]

RunArgvs ==
    {Given(r) : r \in
        [ project          : {Absent, <<>>, P1234, P12345},
          timestamp        : {Absent, <<>>},
          force            : {Absent, <<>>},
          format           : {Absent, <<"markdown">>, <<"html">>},
          output_structure : {Absent, <<"nested">>},
          output_path      : {<<"out">>, <<"/", "data">>, <<".">>} ]}

RunConfigs ==
    { NoConfig,
      ConfigFile([timestamp |-> Bool(TRUE), force |-> Bool(TRUE)]),
      ConfigFile([project |-> Str(P12345), format |-> Str(<<"markdown">>),
                  quarto_path |-> Str(<<"/", "opt", "/", "quarto">>),
                  institute |-> Str(<<"NGI">>)]) }

Dates == {<<"20240101">>}

ScriptDirs == {Cwd, <<Root, <<"opt">>, <<"tool">>>>}

\* files that may be there before the run
Candidates ==
    { Cwd \o <<<<"other", ".md">>>>,
      Cwd \o <<P12345 \o <<"_", "x", ".md">>>>,
      Cwd \o <<<<"out">>, P12345 \o <<"_", "QC", ".md">>>>,
      <<Root, <<"data">>, P12345 \o <<"_", "old", ".txt">>>>,
      Cwd \o <<P12345 \o <<"_files">>, <<"x", ".js">>>> }

InitRun ==
    /\ pc = "start"
    /\ argv \in RunArgvs
    /\ args = Empty
    /\ cfgfile \in RunConfigs
    /\ config = Empty
    /\ today \in Dates
    /\ script_dir \in ScriptDirs
    /\ files0 \in {[p \in ps |-> "old"] :
                     ps \in {x \in SUBSET Candidates : Cardinality(x) <= MaxFiles}}
    /\ files = files0
    /\ dirs = Ancestors(DOMAIN files0 \cup {Cwd \o <<<<"x">>>>, script_dir \o <<<<"x">>>>})
    /\ renders = <<>>
    /\ status = -1
    /\ reason = "none"
    /\ warned = FALSE
    /\ project_id = <<>>
    /\ verdict = "pending"
    /\ line = <<>>
    /\ output = <<>>

Init == InitRun

Next ==
    \/ ParseArgs
    \/ SetRunParameters
    \/ ValidateIds
    \/ validate_quarto_path
    \/ validate_templates
    \/ MakeDirs
    \/ OverwriteCheck
    \/ parse_markdown_templates
    \/ RenderNext
    \/ cleanup_temporary_data

Spec == Init /\ [][Next]_vars

-----------------------------------------------------------------------------
(* the resolution of the configuration alone, over every key *)

\* most options on the command line
MaxArgs == 2

\* most keys in config.json
MaxCfgKeys == 2

\* the word given for an option on the command line
Word(k) ==
    CASE k = "project"          -> P12345
      [] k = "format"           -> <<"html">>
      [] k = "output_structure" -> <<"flat">>
      [] k = "log_level"        -> <<"DEBUG">>
      [] k \in Flags            -> <<>>
      [] k \in PathTyped        -> <<"cli", "/">>
      [] OTHER                  -> <<"cli">>

\* the values config.json may give a key
JsonValues(k) ==
    IF k \in Flags THEN {Bool(TRUE)}
    ELSE IF k = "log_level" THEN {Str(<<"ERROR">>)}
    ELSE IF IsPathKey(k) THEN {Str(<<".", "/", "cfg", "/">>), None}
    ELSE {Str(<<"cfg">>), None}

JsonKeys == SchemaKeys \cup AlienKeys

ConfigArgvs ==
    {[k \in ks |-> Word(k)] :
        ks \in {x \in SUBSET SchemaKeys : Cardinality(x) <= MaxArgs}}

ConfigFiles ==
    {NoConfig} \cup
    UNION {{ConfigFile(j) : j \in {f \in [ks -> UNION {JsonValues(k) : k \in ks}] :
                                      \A k \in ks : f[k] \in JsonValues(k)}} :
              ks \in {x \in SUBSET JsonKeys : Cardinality(x) <= MaxCfgKeys}}

InitConfig ==
    /\ pc = "start"
    /\ argv \in ConfigArgvs
    /\ args = Empty
    /\ cfgfile \in ConfigFiles
    /\ config = Empty
    /\ today \in {<<"20240101">>, <<"20241231">>}
    /\ script_dir = Cwd
    /\ files0 = Empty
    /\ files = Empty
    /\ dirs = Ancestors({Cwd \o <<<<"x">>>>})
    /\ renders = <<>>
    /\ status = -1
    /\ reason = "none"
    /\ warned = FALSE
    /\ project_id = <<>>
    /\ verdict = "pending"
    /\ line = <<>>
    /\ output = <<>>

NextConfig == ParseArgs \/ SetRunParameters

SpecConfig == InitConfig /\ [][NextConfig]_vars

-----------------------------------------------------------------------------
(* The claims *)

Configured == "basename" \in DOMAIN config

ForceGiven == "force" \in DOMAIN argv

\* output_path held, when the process started, a regular file whose name
\* starts with basename
ConflictAtStart ==
    /\ Configured
    /\ config["output_path"] # None
    /\ \E p \in DOMAIN files0 :
          /\ Parent(p) = Abs(config["output_path"].v)
          /\ StartsWith(NameOf(p), config["basename"].v)

\* C1: a run started without --force whose output_path already holds a file
\* whose name starts with basename exits with status 1 having created,
\* modified or deleted no file and run no render command; with --force the
\* overwrite check lets the run through to the writing of the templates and
\* to the renderer.
C1_OverwriteProtection ==
    /\ []((status # -1 /\ ~ForceGiven /\ ConflictAtStart)
            => (status = 1 /\ files = files0 /\ renders = <<>>))
    /\ []((pc = "dirs" /\ ~ForceGiven /\ ConflictAtStart) => files = files0)
    /\ [][(pc = "dirs" /\ ForceGiven) => pc' = "checked"]_vars
    /\ [][pc = "checked" => (pc' = "render" /\ files' # files)]_vars
    /\ [][pc = "render" /\ config["format"] # None => Len(renders') = Len(renders) + 1]_vars

C1_Witness ==
    /\ status = 1
    /\ reason = "overwrite"
    /\ ~ForceGiven
    /\ ConflictAtStart
    /\ files = files0

IsPrefix(s, t) == Len(s) <= Len(t) /\ s = SubSeq(t, 1, Len(s))

\* C4: when the renderer exits non-zero the process ends with status 1 and
\* the renderer is run for no later kind; over a run the render command is
\* run at most once per kind, in the order QC, Delivery, Close.
C4_RenderFailureIsFatal ==
    /\ [](reason = "render" => (status = 1 /\ pc = "exit"))
    /\ [](IsPrefix(renders, Kinds))
    /\ [][reason = "render" => renders' = renders]_vars

C4_Witness ==
    /\ reason = "render"
    /\ status = 1
    /\ renders = <<"QC">>

RECURSIVE JoinUnderscore(_)
JoinUnderscore(parts) ==
    IF parts = <<>> THEN <<>>
    ELSE IF Len(parts) = 1 THEN parts[1]
    ELSE parts[1] \o <<"_">> \o JoinUnderscore(Tail(parts))

\* C10: basename is the run date (when timestamp is set) and the project
\* (when there is one) joined by a single "_", with no leading or trailing
\* "_", and it keeps that value through every later step of the run.
C10_Basename ==
    Configured =>
        LET proj  == config["project"]
            parts == (IF config["timestamp"] = Bool(TRUE) THEN <<today>> ELSE <<>>)
                     \o (IF proj # None /\ proj.v # <<>> THEN <<proj.v>> ELSE <<>>)
            base  == config["basename"].v
        IN  /\ config["basename"] = Str(JoinUnderscore(parts))
            /\ base # <<>> => (base[1] # "_" /\ base[Len(base)] # "_")

C10_Witness ==
    /\ pc = "done"
    /\ config["basename"] = Str(today \o <<"_">> \o P12345)

OtherMd == Cwd \o <<<<"other", ".md">>>>

IsMd(p) == NameOf(p)[Len(NameOf(p))] = ".md"

\* C2: cleanup deletes a .md file only if its name starts with the basename of
\* the run and the file belongs to the run; other.md, which is unrelated to
\* the run, is still there after cleanup, also when basename is empty.
C2_CleanupScoped ==
    pc = "done" =>
        \A p \in DOMAIN files0 \ DOMAIN files :
            IsMd(p) => (StartsWith(NameOf(p), config["basename"].v) /\ p # OtherMd)

\* C3: after a markdown run whose three renders succeeded and whose cleanup
\* has finished, the three final artifacts exist under output_path, wherever
\* output_path lies.
C3_ArtifactsSurviveCleanup ==
    (pc = "done" /\ config["format"] = Str(<<"markdown">>)) =>
        \A i \in DOMAIN Kinds : Artifact(config, Kinds[i]) \in DOMAIN files

\* C5: after a run whose three renders succeeded and whose cleanup has
\* finished, the three intermediate documents are in qmds_path and no longer
\* where they were written, whatever the working directory and the directory
\* of the program are.
C5_QmdsArchived ==
    pc = "done" =>
        \A i \in DOMAIN Kinds :
            LET name == DocName(config["basename"].v, Kinds[i], ".qmd")
            IN  /\ (config["qmds_path"].v \o <<name>>) \in DOMAIN files
                /\ Abs(<<name>>) \notin DOMAIN files

\* C6: a key of config.json that the user did not give on the command line
\* holds, in the resolved configuration, the value of config.json and not
\* the default of the argument parser; a persisted timestamp puts the date
\* in front of basename.
C6_PersistedOverridesDefaults ==
    pc = "configured" =>
        /\ \A k \in (DOMAIN cfgfile.json \cap SchemaKeys) \ DOMAIN argv :
              config[k] = Loaded(cfgfile)[k]
        /\ ("timestamp" \in DOMAIN cfgfile.json \ DOMAIN argv)
              => StartsWith(config["basename"].v, today)

\* C7: for a key of config.json that is an option, the resolved configuration
\* holds the command-line value when that is not null and the persisted
\* value when it is; a key that is no option is kept and only warned about:
\* the run is not aborted.
C7_ConfigPrecedence ==
    pc \notin {"start", "args"} =>
        /\ status = -1
        /\ Configured
        /\ \A k \in DOMAIN cfgfile.json \cap SchemaKeys :
              config[k] = IF args[k] # None THEN args[k] ELSE Loaded(cfgfile)[k]
        /\ \A k \in DOMAIN cfgfile.json \ SchemaKeys :
              k \in DOMAIN config /\ config[k] = Loaded(cfgfile)[k] /\ warned

====
